---- MODULE Spec2Model ----
(***************************************************************************)
(* State-machine model of the POS page component (src/pages/index.tsx):    *)
(* the React state of HomePage, the requests it has in flight, and one     *)
(* action per event handler / promise continuation.                       *)
(*                                                                         *)
(* Cart lines are JavaScript objects: the cart state is an array of        *)
(* references into `heap`, so that the in-place write of autoAddToCart     *)
(* (newCart[idx].quantity += 1) is visible through every array that still *)
(* holds the same object (the previous state, a running handlePurchase).   *)
(***************************************************************************)
EXTENDS Integers, Sequences, FiniteSets, TLC

\* ---------------------------------------------------------------- bounds
\* Lookups (fetchProductByCode calls that reach the network) per run.
MaxLookups == 3
\* The same, in the runs that also check out.
MaxCheckoutLookups == 2
\* handlePurchase invocations that pass the transaction-id check, per run.
MaxPurchases == 2
\* Scan sessions (decoders created by the scanner effect) per run.
MaxScans == 2
\* The largest DTL_ID that Math.random() yields in the runs explored
\* (999999 in the program).
MaxDetailId == 1
\* The TOTAL_AMTs the backend answers with, where its answer is an input:
\* 0 .. LowTotalAmt and HighTotalAmt .. MaxTotalAmt.
LowTotalAmt == 5
HighTotalAmt == 445
MaxTotalAmt == 460

\* ------------------------------------------------------- program constants
\* handleChangeQuantity accepts 1..99.
MinQty == 1
MaxQty == 99
\* React calls a state updater this many times in a development build
\* when reactStrictMode is on (once in a production build).
StrictModeRuns == 2

\* ------------------------------------------------------------- the backend
\* Product codes registered in the product master, and one that is not.
Codes == {"A", "B"}
Unregistered == "X"
AllCodes == Codes \cup {Unregistered}

\* interface Product: the record the backend returns for a registered code.
Product(code) ==
  [PRD_ID |-> CASE code = "A" -> 1 [] code = "B" -> 2 [] OTHER -> 3,
   CODE   |-> code,
   NAME   |-> code,
   PRICE  |-> CASE code = "A" -> 100 [] code = "B" -> 250 [] OTHER -> 55]

\* --------------------------------------------------------------- the heap
\* interface CartItem (PRD_ID and NAME are copied from the product and never
\* read by the handlers; they are recovered from CODE where a request needs them).
NoItem == [CODE |-> "", PRICE |-> 0, quantity |-> 0]
NObj == (MaxPurchases + 1) * Cardinality(Codes) + StrictModeRuns
ObjIds == 1 .. NObj

NoProduct == "null"
NoTransaction == 0

\* alert(...) texts of the handlers, as sequences of their parts.
AlertNone == <<"none">>
AlertLookupFailed == <<"lookup failed">>
AlertLookupException == <<"lookup exception">>
AlertQuantityRange == <<"quantity must be 1..99">>
AlertNoTransaction == <<"transaction id not acquired">>
AlertDetailFailed == <<"detail registration failed">>
AlertRefreshFailed == <<"transaction fetch failed">>
\* The completion alert carries the tax-inclusive total.
AlertPurchaseDone(total) == <<"purchase completed", total>>
AlertCamera == <<"camera not accessible">>

VARIABLES
  strictDev,        \* TRUE: development build, reactStrictMode double invocation
  transactionId,    \* useState<number | null>
  productCode,      \* useState('')
  foundProduct,     \* useState<Product | null>, the product's code
  productError,     \* useState('')
  cart,             \* useState<CartItem[]>: array of object references
  heap,             \* the CartItem objects
  isScanning,       \* useState(false)
  scannerControls,  \* useState<IScannerControls | null>: a decoder, or 0
  alertMsg,         \* the text of the last alert()
  txnPending,       \* POST /api/transactions requests in flight
  txnIssued,        \* POST /api/transactions requests issued so far
  txnCreated,       \* transactions the backend has created
  lookups,          \* GET /api/products-by-code/{code} requests in flight, per code
  nLookups,         \* lookups issued so far
  okLookups,        \* successful lookup responses handled so far, per code
  pur,              \* the handlePurchase invocations (async function instances)
  serverTotal,      \* backend: TOTAL_AMT per transaction
  detailIds,        \* the DTL_IDs of the detail calls issued, per transaction
  dec,              \* the decoders created by the scanner effect
  effectCtrls       \* scannerControls as captured by the live effect's cleanup

vars == <<strictDev, transactionId, productCode, foundProduct, productError,
          cart, heap, isScanning, scannerControls, alertMsg, txnPending,
          txnIssued, txnCreated, lookups, nLookups, okLookups, pur,
          serverTotal, detailIds, dec, effectCtrls>>

cartVars == <<cart, heap>>
displayVars == <<productCode, foundProduct, productError>>
txnVars == <<transactionId, txnPending, txnIssued, txnCreated>>
scanVars == <<isScanning, scannerControls, dec, effectCtrls>>
lookupVars == <<lookups, nLookups, okLookups>>
purVars == <<pur, serverTotal, detailIds>>

\* ------------------------------------------------------------ heap helpers
Range(seq) == {seq[i] : i \in 1 .. Len(seq)}

\* Object addresses cannot be observed, and an unreferenced object is gone:
\* after each step the referenced objects are renumbered 1, 2, ... in the
\* order in which the cart and then the running purchases hold them.
RECURSIVE Distinct(_, _)
Distinct(seq, seen) ==
  IF seq = <<>> THEN <<>>
  ELSE IF Head(seq) \in seen THEN Distinct(Tail(seq), seen)
       ELSE <<Head(seq)>> \o Distinct(Tail(seq), seen \cup {Head(seq)})

RECURSIVE AllItems(_, _)
AllItems(p, k) ==
  IF k > Len(p) THEN <<>> ELSE p[k].items \o AllItems(p, k + 1)

Address(order, o) == CHOOSE n \in 1 .. Len(order) : order[n] = o

commit(h, c, p) ==
  LET order == Distinct(c \o AllItems(p, 1), {})
      move(arr) == [n \in 1 .. Len(arr) |-> Address(order, arr[n])]
  IN  /\ cart' = move(c)
      /\ pur' = [k \in DOMAIN p |-> [p[k] EXCEPT !.items = move(@)]]
      /\ heap' = [o \in ObjIds |-> IF o <= Len(order) THEN h[order[o]] ELSE NoItem]

\* Object creation ({...} literal): the first free slot.
Alloc(h) ==
  CHOOSE o \in ObjIds : h[o] = NoItem /\ \A o2 \in ObjIds : h[o2] = NoItem => o <= o2

\* The array as values, for display and for statements about the cart.
Lines(h, arr) == [i \in 1 .. Len(arr) |-> h[arr[i]]]
CartLines == Lines(heap, cart)

\* A findIndex that finds no line.
findIndexNone(h, arr, code) ==
  0

\* prev.findIndex(item => item.CODE === code), 1-based; 0 stands for -1.
findIndex(h, arr, code) ==
  LET hits == {i \in 1 .. Len(arr) : h[arr[i]].CODE = code}
  IN  IF hits = {} THEN 0 ELSE CHOOSE i \in hits : \A j \in hits : i <= j

\* const totalWithoutTax = cart.reduce((sum, item) => sum + item.PRICE * item.quantity, 0)
RECURSIVE reduceTotal(_, _, _)
reduceTotal(h, arr, sum) ==
  IF arr = <<>> THEN sum
  ELSE reduceTotal(h, Tail(arr), sum + h[Head(arr)].PRICE * h[Head(arr)].quantity)

totalWithoutTax == reduceTotal(heap, cart, 0)

\* ------------------------------------------------------------ autoAddToCart
\* The updater passed to setCart, applied to the previous state `prev`:
\* returns the heap after the call and the array the call returns.
cartUpdater(h, prev, product) ==
  LET idx == findIndex(h, prev, product.CODE) IN
  IF idx # 0
    THEN \* const newCart = [...prev]; newCart[idx].quantity += 1: the item
         \* object is shared with prev, the write goes to the heap object.
         [heap |-> [h EXCEPT ![prev[idx]].quantity = @ + 1], cart |-> prev]
    ELSE LET o == Alloc(h) IN
         [heap |-> [h EXCEPT ![o] = [CODE |-> product.CODE,
                                     PRICE |-> product.PRICE,
                                     quantity |-> 1]],
          cart |-> Append(prev, o)]

\* React runs the updater `runs` times on the same previous state and keeps
\* the array returned by the last run; the heap keeps every run's writes.
RECURSIVE runUpdater(_, _, _, _)
runUpdater(runs, h, prev, product) ==
  IF runs <= 1 THEN cartUpdater(h, prev, product)
  ELSE runUpdater(runs - 1, cartUpdater(h, prev, product).heap, prev, product)

\* How often a build may run an updater.
UpdaterRuns == IF strictDev THEN 1 .. StrictModeRuns ELSE {1}

autoAddToCart(product, runs) ==
  LET r == runUpdater(runs, heap, cart, product) IN
  commit(r.heap, r.cart, pur)

\* ------------------------------------------------------- fetchProductByCode
\* The synchronous part, up to the await of fetch.
fetchProductByCode(code) ==
  IF code = "" THEN UNCHANGED <<foundProduct, productError, lookupVars>>
  ELSE /\ foundProduct' = NoProduct
       /\ productError' = ""
       /\ lookups' = [lookups EXCEPT ![code] = @ + 1]
       /\ nLookups' = nLookups + 1
       /\ UNCHANGED okLookups

\* What the backend can answer for a code: the product of a registered code,
\* 404 for any other, a non-2xx answer or no answer at all for both.
Outcomes(code) ==
  (IF code \in Codes THEN {"ok"} ELSE {"notfound"}) \cup {"error", "exception"}

\* The continuation with its !res.ok check left out: a non-2xx answer other
\* than 404 is read as a product.
lookupResponseNoOkCheck(code, outcome, runs) ==
  /\ lookups[code] > 0
  /\ outcome \in Outcomes(code)
  /\ lookups' = [lookups EXCEPT ![code] = @ - 1]
  /\ UNCHANGED nLookups
  /\ CASE outcome = "notfound" ->
            /\ foundProduct' = NoProduct
            /\ productError' = "not registered"
            /\ UNCHANGED <<cartVars, pur, alertMsg, okLookups>>
       [] outcome = "exception" ->
            /\ alertMsg' = AlertLookupException
            /\ UNCHANGED <<cartVars, pur, foundProduct, productError, okLookups>>
       [] OTHER ->
            /\ foundProduct' = Product(code).CODE
            /\ productError' = ""
            /\ autoAddToCart(Product(code), runs)
            /\ okLookups' = IF outcome = "ok" THEN [okLookups EXCEPT ![code] = @ + 1]
                            ELSE okLookups
            /\ UNCHANGED alertMsg
  /\ UNCHANGED <<strictDev, productCode, txnVars, scanVars, serverTotal, detailIds>>

\* The continuation of fetchProductByCode after the await.
lookupResponse(code, outcome, runs) ==
  /\ lookups[code] > 0
  /\ outcome \in Outcomes(code)
  /\ lookups' = [lookups EXCEPT ![code] = @ - 1]
  /\ UNCHANGED nLookups
  /\ CASE outcome = "notfound" ->
            /\ foundProduct' = NoProduct
            /\ productError' = "not registered"
            /\ UNCHANGED <<cartVars, pur, alertMsg, okLookups>>
       [] outcome = "error" ->
            /\ alertMsg' = AlertLookupFailed
            /\ UNCHANGED <<cartVars, pur, foundProduct, productError, okLookups>>
       [] outcome = "exception" ->
            /\ alertMsg' = AlertLookupException
            /\ UNCHANGED <<cartVars, pur, foundProduct, productError, okLookups>>
       [] OTHER ->
            /\ foundProduct' = Product(code).CODE
            /\ productError' = ""
            /\ autoAddToCart(Product(code), runs)
            /\ okLookups' = [okLookups EXCEPT ![code] = @ + 1]
            /\ UNCHANGED alertMsg
  /\ UNCHANGED <<strictDev, productCode, txnVars, scanVars, serverTotal, detailIds>>

\* <input onChange={(e) => setProductCode(e.target.value)}>
typeProductCode(code) ==
  /\ productCode # code
  /\ productCode' = code
  /\ UNCHANGED <<strictDev, transactionId, foundProduct, productError, cartVars,
                 scanVars, alertMsg, txnPending, txnIssued, txnCreated,
                 lookupVars, purVars>>

handleManualRead ==
  /\ fetchProductByCode(productCode)
  /\ UNCHANGED <<strictDev, productCode, txnVars, cartVars, scanVars, alertMsg,
                 purVars>>

\* --------------------------------------------------------- handleRemoveItem
\* The button is rendered per cart line, so `code` is the code of a line.
handleRemoveItem(code) ==
  /\ findIndex(heap, cart, code) # 0
  /\ commit(heap, SelectSeq(cart, LAMBDA o : heap[o].CODE # code), pur)
  /\ UNCHANGED <<strictDev, displayVars, txnVars, scanVars, alertMsg,
                 lookupVars, serverTotal, detailIds>>

\* ----------------------------------------------------- handleChangeQuantity
\* Strings are sequences of one-character strings.
DigitChars == {"0", "1", "2", "3", "4", "5", "6", "7", "8", "9"}
DigitVal(c) ==
  CASE c = "0" -> 0 [] c = "1" -> 1 [] c = "2" -> 2 [] c = "3" -> 3 [] c = "4" -> 4
    [] c = "5" -> 5 [] c = "6" -> 6 [] c = "7" -> 7 [] c = "8" -> 8 [] OTHER -> 9

RECURSIVE skipSpaces(_)
skipSpaces(s) == IF s # <<>> /\ Head(s) = " " THEN skipSpaces(Tail(s)) ELSE s

\* The value of the longest prefix of digits, and whether there is one.
RECURSIVE digitsPrefix(_, _, _)
digitsPrefix(s, acc, any) ==
  IF s # <<>> /\ Head(s) \in DigitChars
    THEN digitsPrefix(Tail(s), 10 * acc + DigitVal(Head(s)), TRUE)
    ELSE [nan |-> ~any, val |-> acc]

\* parseInt(input, 10): leading white space, an optional sign, then digits up to
\* the first other character; NaN when no digit is there.
parseInt(input) ==
  LET t    == skipSpaces(input)
      neg  == t # <<>> /\ Head(t) = "-"
      body == IF t # <<>> /\ Head(t) \in {"-", "+"} THEN Tail(t) ELSE t
      r    == digitsPrefix(body, 0, FALSE)
  IN  [nan |-> r.nan, val |-> IF neg THEN 0 - r.val ELSE r.val]

\* prev.map(item => item.CODE === code ? { ...item, quantity: newQty } : item)
RECURSIVE mapQuantity(_, _, _, _)
mapQuantity(h, arr, code, newQty) ==
  IF arr = <<>> THEN [heap |-> h, cart |-> <<>>]
  ELSE LET item == Head(arr)
           hit  == h[item].CODE = code
           o    == Alloc(h)
           h1   == IF hit THEN [h EXCEPT ![o] = [h[item] EXCEPT !.quantity = newQty]]
                   ELSE h
           rest == mapQuantity(h1, Tail(arr), code, newQty)
       IN  [heap |-> rest.heap,
            cart |-> <<IF hit THEN o ELSE item>> \o rest.cart]

\* The range check with its upper bound left out.
quantityRejectedNoUpperBound(newQty) ==
  newQty.nan \/ newQty.val < MinQty

\* Number.isNaN(newQty) || newQty < 1 || newQty > 99
quantityRejected(newQty) ==
  newQty.nan \/ newQty.val < MinQty \/ newQty.val > MaxQty

\* window.prompt returns null (cancelled) or the text typed. The handler is
\* bound to the button of a cart line, but works on whatever code it is given.
handleChangeQuantity(code, cancelled, input) ==
  /\ UNCHANGED <<strictDev, displayVars, txnVars, scanVars, lookupVars, serverTotal,
                 detailIds>>
  /\ IF cancelled \/ input = <<>>
       THEN UNCHANGED <<cartVars, pur, alertMsg>>
       ELSE LET newQty == parseInt(input) IN
            IF quantityRejected(newQty)
              THEN /\ alertMsg' = AlertQuantityRange
                   /\ UNCHANGED <<cartVars, pur>>
              ELSE LET r == mapQuantity(heap, cart, code, newQty.val) IN
                   /\ UNCHANGED alertMsg
                   /\ commit(r.heap, r.cart, pur)

\* -------------------------------------------------------- createTransaction
\* The continuation of createTransaction after the await of fetch: the backend
\* numbers the transactions it creates 1, 2, ...
createTransactionResponse(outcome) ==
  /\ txnPending > 0
  /\ txnPending' = txnPending - 1
  /\ IF outcome = "ok"
       THEN /\ txnCreated' = txnCreated + 1
            /\ transactionId' = txnCreated + 1
       ELSE UNCHANGED <<txnCreated, transactionId>>
  /\ UNCHANGED <<strictDev, txnIssued, displayVars, cartVars, scanVars, alertMsg,
                 lookupVars, purVars>>

\* ------------------------------------------------- Math.round(total * 1.1)
\* Numbers are IEEE-754 doubles. The literal 1.1 is the double
\* 0x1.199999999999ap+0: a significand of 53 bits (its hexadecimal digits
\* below, the leading 1 being one bit), to be divided by 2^52.
OnePointOneHex == <<1, 9, 9, 9, 9, 9, 9, 9, 9, 9, 9, 9, 10>>
SignificandBits == 53
FractionBits == 52

\* Bit strings are sequences of 0 and 1, most significant bit first.
HexBits(d) == <<(d \div 8) % 2, (d \div 4) % 2, (d \div 2) % 2, d % 2>>

RECURSIVE HexToBits(_)
HexToBits(hex) ==
  IF hex = <<>> THEN <<>> ELSE HexBits(Head(hex)) \o HexToBits(Tail(hex))

OnePointOne == <<1>> \o HexToBits(OnePointOneHex)

Reverse(seq) == [n \in 1 .. Len(seq) |-> seq[Len(seq) + 1 - n]]

RECURSIVE NatToBitsLE(_)
NatToBitsLE(n) == IF n = 0 THEN <<>> ELSE <<n % 2>> \o NatToBitsLE(n \div 2)

RECURSIVE BitsToNat(_, _)
BitsToNat(bits, acc) ==
  IF bits = <<>> THEN acc ELSE BitsToNat(Tail(bits), 2 * acc + Head(bits))

\* n times a bit string given least significant bit first: the exact product.
RECURSIVE MulBitsLE(_, _, _)
MulBitsLE(le, n, carry) ==
  IF le = <<>> THEN NatToBitsLE(carry)
  ELSE LET t == n * Head(le) + carry
       IN  <<t % 2>> \o MulBitsLE(Tail(le), n, t \div 2)

\* bits + 1
RECURSIVE IncLE(_)
IncLE(le) ==
  IF le = <<>> THEN <<1>>
  ELSE IF Head(le) = 0 THEN <<1>> \o Tail(le) ELSE <<0>> \o IncLE(Tail(le))

\* Rounding of an exact value to a double (round to nearest, ties to even):
\* the first 53 bits are kept, the rest decides whether they are raised by 1;
\* the result is given at the same scale, the dropped bits being 0.
RoundToDouble(bits) ==
  IF Len(bits) <= SignificandBits THEN bits
  ELSE LET kept  == SubSeq(bits, 1, SignificandBits)
           rest  == SubSeq(bits, SignificandBits + 1, Len(bits))
           above == \E n \in 2 .. Len(rest) : rest[n] = 1
           up    == rest[1] = 1 /\ (above \/ kept[SignificandBits] = 1)
           m     == IF up THEN Reverse(IncLE(Reverse(kept))) ELSE kept
       IN  m \o [n \in 1 .. Len(rest) |-> 0]

\* total * 1.1 for an integer total >= 0: the double nearest to the exact
\* product, as a bit string with FractionBits bits after the binary point.
TimesOnePointOne(total) ==
  IF total = 0 THEN [n \in 1 .. SignificandBits |-> 0]
  ELSE RoundToDouble(Reverse(MulBitsLE(Reverse(OnePointOne), total, 0)))

\* Math.floor of such a double: the fraction is dropped.
MathFloor(x) ==
  BitsToNat(SubSeq(x, 1, Len(x) - FractionBits), 0)

\* Math.round of such a double: the nearest integer, a fraction of exactly
\* one half going up, which is floor(x + 0.5): the integer part, plus 1 when
\* the bit of weight one half is set.
MathRound(x) ==
  BitsToNat(SubSeq(x, 1, Len(x) - FractionBits), 0) + x[Len(x) - FractionBits + 1]

\* const totalTaxIncluded = Math.round(data.TOTAL_AMT * 1.1)
totalTaxIncluded(TOTAL_AMT) == MathRound(TimesOnePointOne(TOTAL_AMT))

\* ----------------------------------------------------------- handlePurchase
\* One invocation of the async function: where it is suspended (pc), what its
\* closure holds (tid, items), its loop variables (line, i), and a record of
\* what it has done: the product codes of the detail calls it has issued
\* (calls), those the cart asked for when it was invoked (expected), that
\* cart's totalWithoutTax (total0) and whether a detail call failed (failed).
\* Once the function has returned or thrown, only how it ended is kept.
IdlePurchase ==
  [pc |-> "idle", tid |-> NoTransaction, items |-> <<>>, line |-> 0, i |-> 0,
   calls |-> <<>>, expected |-> <<>>, total0 |-> 0, failed |-> FALSE]

Ended(how) == [IdlePurchase EXCEPT !.pc = how]

Running(p) == p.pc \in {"detail", "refresh"}
Finished(p) == p.pc \in {"done", "returned", "rejected"}

\* The product codes of the units of a cart, line by line.
RECURSIVE Units(_, _)
Units(h, arr) ==
  IF arr = <<>> THEN <<>>
  ELSE [n \in 1 .. h[Head(arr)].quantity |-> h[Head(arr)].CODE] \o Units(h, Tail(arr))

\* for (const item of cart) for (let i = 0; i < item.quantity; i++): from the
\* loop position (line, i), the position of the next registerDetail call that
\* issues a request, or line = Len(items) + 1 when the loops are over.
\* registerDetail returns at once when its transactionId is unset.
RECURSIVE loopNext(_, _, _, _, _)
loopNext(h, items, tid, line, i) ==
  IF line > Len(items) THEN [line |-> line, i |-> 0]
  ELSE IF i < h[items[line]].quantity /\ tid # NoTransaction
         THEN [line |-> line, i |-> i]
         ELSE loopNext(h, items, tid, line + 1, 0)

\* The function runs on from loop position (line, i) to its next await: the
\* fetch of registerDetail, or the fetch of the transaction after the loops.
resume(p, h, line, i) ==
  LET nxt == loopNext(h, p.items, p.tid, line, i) IN
  IF nxt.line <= Len(p.items)
    THEN [p EXCEPT !.pc = "detail", !.line = nxt.line, !.i = nxt.i,
                   !.calls = Append(@, h[p.items[nxt.line]].CODE)]
    ELSE [p EXCEPT !.pc = "refresh", !.line = nxt.line, !.i = 0]

FreeSlots == {k \in DOMAIN pur : pur[k].pc = "idle"}

\* DTL_ID: Math.floor(Math.random() * 1000000)
DetailIds == 0 .. MaxDetailId

\* The detail ids issued once the function is suspended as p: registerDetail
\* has built a body with DTL_ID `id` if the function awaits a detail call.
issued(p, id) ==
  IF p.pc = "detail" THEN [detailIds EXCEPT ![p.tid] = @ \cup {id}] ELSE detailIds

\* The call, up to its first await, with the transactionId and cart of the
\* current render; `id` is the DTL_ID Math.random() yields if a detail call
\* is issued.
startPurchase(id) ==
  /\ FreeSlots # {}
  /\ LET k == CHOOSE k \in FreeSlots : \A j \in FreeSlots : k <= j
         p == [IdlePurchase EXCEPT !.tid = transactionId, !.items = cart,
                                   !.expected = Units(heap, cart),
                                   !.total0 = totalWithoutTax]
         q == resume(p, heap, 1, 0)
     IN  /\ commit(heap, cart, [pur EXCEPT ![k] = q])
         /\ detailIds' = issued(q, id)
  /\ UNCHANGED <<strictDev, displayVars, txnVars, scanVars, alertMsg,
                 lookupVars, serverTotal>>

\* handlePurchase with its transactionId check left out.
handlePurchaseUnchecked(id) ==
  startPurchase(id)

\* The click handler of the purchase button (lines 240-272).
handlePurchase(id) ==
  IF transactionId = NoTransaction
    THEN /\ alertMsg' = AlertNoTransaction
         /\ UNCHANGED <<strictDev, displayVars, txnVars, cartVars, scanVars,
                        lookupVars, purVars>>
    ELSE startPurchase(id)

\* The continuation after the await of registerDetail's fetch; `id` is the
\* DTL_ID Math.random() yields if a further detail call is issued.
detailResponse(k, outcome, id) ==
  LET p == pur[k] IN
  /\ p.pc = "detail"
  /\ CASE outcome = "exception" ->
            \* fetch rejects: registerDetail and handlePurchase reject with it
            /\ commit(heap, cart, [pur EXCEPT ![k] = Ended("rejected")])
            /\ UNCHANGED <<alertMsg, serverTotal, detailIds>>
       [] outcome = "ok" ->
            LET q == resume(p, heap, p.line, p.i + 1) IN
            /\ serverTotal' = [serverTotal EXCEPT
                                 ![p.tid] = @ + heap[p.items[p.line]].PRICE]
            /\ commit(heap, cart, [pur EXCEPT ![k] = q])
            /\ detailIds' = issued(q, id)
            /\ UNCHANGED alertMsg
       [] OTHER ->
            LET q == resume([p EXCEPT !.failed = TRUE], heap, p.line, p.i + 1) IN
            /\ alertMsg' = AlertDetailFailed
            /\ commit(heap, cart, [pur EXCEPT ![k] = q])
            /\ detailIds' = issued(q, id)
            /\ UNCHANGED serverTotal
  /\ UNCHANGED <<strictDev, displayVars, txnVars, scanVars, lookupVars>>

\* GET /api/transactions/{id}: the TOTAL_AMT of the backend's transaction.
getTransaction(tid) ==
  IF tid \in DOMAIN serverTotal THEN serverTotal[tid] ELSE 0

\* The continuation after the await of the transaction fetch; TOTAL_AMT is
\* data.TOTAL_AMT of a successful response.
refreshResponse(k, outcome, TOTAL_AMT) ==
  LET p == pur[k] IN
  /\ p.pc = "refresh"
  /\ IF outcome = "error"
       THEN /\ alertMsg' = AlertRefreshFailed
            /\ commit(heap, cart, [pur EXCEPT ![k] = Ended("returned")])
            /\ UNCHANGED displayVars
       ELSE /\ IF outcome = "ok"
                 THEN alertMsg' = AlertPurchaseDone(totalTaxIncluded(TOTAL_AMT))
                 ELSE UNCHANGED alertMsg
            /\ commit(heap, <<>>, [pur EXCEPT ![k] = Ended("done")])
            /\ productCode' = ""
            /\ foundProduct' = NoProduct
            /\ productError' = ""
  /\ UNCHANGED <<strictDev, txnVars, scanVars, lookupVars, serverTotal, detailIds>>

\* ------------------------------------------------------------- the scanner
\* A decoder is one codeReader.decodeFromVideoDevice(...) call: "acquiring"
\* until the camera stream is there, then "running" (the stream is live and
\* frames are decoded) until its controls.stop() is called ("stopped");
\* "failed" when the stream could not be acquired. decodes and lookups count
\* the successful decode callbacks it delivered and the lookups they started;
\* stopAsked records an explicit stop request made while it was the scan in
\* progress.
NoDecoder ==
  [st |-> "none", decodes |-> 0, lookups |-> 0, stopAsked |-> FALSE]
NoControls == 0

UnusedDecoders == {d \in DOMAIN dec : dec[d].st = "none"}
\* The decoder of the scan in progress: the one the last effect run created.
CurrentDecoder ==
  LET used == DOMAIN dec \ UnusedDecoders
  IN  IF used = {} THEN NoControls ELSE CHOOSE d \in used : \A e \in used : e <= d

\* IScannerControls.stop() on the handle c (no handle: nothing to call).
controlsStop(D, c) ==
  IF c # NoControls /\ D[c].st = "running" THEN [D EXCEPT ![c].st = "stopped"] ELSE D

\* The effect's cleanup, which React runs when isScanning changes to false:
\* it stops the scannerControls of the render the effect was created in.
effectCleanup(D) ==
  IF isScanning THEN controlsStop(D, effectCtrls) ELSE D

handleToggleScan ==
  /\ IF ~isScanning
       THEN \* setIsScanning(true); the effect then runs and creates a decoder
            /\ UnusedDecoders # {}
            /\ LET d == CHOOSE d \in UnusedDecoders : \A e \in UnusedDecoders : d <= e
               IN  dec' = [dec EXCEPT ![d].st = "acquiring"]
            /\ isScanning' = TRUE
            /\ effectCtrls' = scannerControls
            /\ UNCHANGED scannerControls
       ELSE /\ LET asked == [dec EXCEPT ![CurrentDecoder].stopAsked = TRUE]
               IN  dec' = effectCleanup(controlsStop(asked, scannerControls))
            /\ scannerControls' = NoControls
            /\ isScanning' = FALSE
            /\ effectCtrls' = NoControls
  /\ UNCHANGED <<strictDev, displayVars, txnVars, cartVars, alertMsg, lookupVars,
                 purVars>>

\* The decode callback with its controls.stop() left out.
decodersOnResultNoStop(D, d) ==
  effectCleanup([D EXCEPT ![d].decodes = @ + 1, ![d].lookups = @ + 1])

\* What the decode callback does to the decoders on a result (lines 181-185):
\* controls.stop(), then the state changes that make the cleanup run.
decodersOnResult(D, d) ==
  effectCleanup(controlsStop([D EXCEPT ![d].decodes = @ + 1, ![d].lookups = @ + 1], d))

\* The callback given to decodeFromVideoDevice, called with a result;
\* `after` is the value of scannerControls once the step is over.
decodeCallback(D, d, scannedCode, after) ==
  /\ dec' = decodersOnResult(D, d)
  /\ scannerControls' = after
  /\ isScanning' = FALSE
  /\ effectCtrls' = NoControls
  /\ productCode' = scannedCode
  /\ fetchProductByCode(scannedCode)
  /\ UNCHANGED <<strictDev, txnVars, cartVars, alertMsg, purVars>>

\* The stream is acquired: the decoder starts its frame loop, whose first
\* frame may already hold a code (`first`, "" when it does not), and then the
\* promise resolves: .then((ctrls) => setScannerControls(ctrls)).
streamAcquired(d, first) ==
  /\ dec[d].st = "acquiring"
  /\ LET D == [dec EXCEPT ![d].st = "running"] IN
     IF first = ""
       THEN /\ dec' = D
            /\ scannerControls' = d
            /\ UNCHANGED <<strictDev, isScanning, effectCtrls, displayVars, txnVars,
                           cartVars, alertMsg, lookupVars, purVars>>
       ELSE decodeCallback(D, d, first, d)

\* A later frame of a running decoder holds a code.
decoded(d, scannedCode) ==
  /\ dec[d].st = "running"
  /\ decodeCallback(dec, d, scannedCode, NoControls)

\* The stream cannot be acquired: .catch((err) => ...).
acquireFailed(d) ==
  /\ dec[d].st = "acquiring"
  /\ dec' = effectCleanup([dec EXCEPT ![d].st = "failed"])
  /\ alertMsg' = AlertCamera
  /\ isScanning' = FALSE
  /\ effectCtrls' = NoControls
  /\ UNCHANGED <<strictDev, scannerControls, displayVars, txnVars, cartVars,
                 lookupVars, purVars>>

\* ------------------------------------------------------------ the behaviours
\* The page after its first commit: the effects have run, so createTransaction
\* has issued its request (twice where the build mounts effects twice).
Init ==
  /\ strictDev \in BOOLEAN
  /\ transactionId = NoTransaction
  /\ productCode = ""
  /\ foundProduct = NoProduct
  /\ productError = ""
  /\ cart = <<>>
  /\ heap = [o \in ObjIds |-> NoItem]
  /\ isScanning = FALSE
  /\ scannerControls = NoControls
  /\ alertMsg = AlertNone
  /\ txnPending = (IF strictDev THEN StrictModeRuns ELSE 1)
  /\ txnIssued = txnPending
  /\ txnCreated = 0
  /\ lookups = [c \in AllCodes |-> 0]
  /\ nLookups = 0
  /\ okLookups = [c \in Codes |-> 0]
  /\ pur = [k \in 1 .. MaxPurchases |-> IdlePurchase]
  /\ serverTotal = [t \in 1 .. StrictModeRuns |-> 0]
  /\ detailIds = [t \in 1 .. StrictModeRuns |-> {}]
  /\ dec = [d \in 1 .. MaxScans |-> NoDecoder]
  /\ effectCtrls = NoControls

HttpOutcomes == {"ok", "error", "exception"}

\* What window.prompt returns in the runs explored: null, or a text.
PromptResults ==
  {[cancelled |-> TRUE, text |-> <<>>]} \cup
  {[cancelled |-> FALSE, text |-> t] :
     t \in {<<>>, <<"0">>, <<"2">>, <<"9", "9">>, <<"1", "0", "0">>, <<"a">>,
            <<" ", "2", "a">>, <<"-", "1">>}}

\* The cart: lookups typed in, their responses, and the cart's buttons.
NextCart ==
  \/ \E code \in AllCodes \cup {""} : typeProductCode(code)
  \/ nLookups < MaxLookups /\ handleManualRead
  \/ \E code \in AllCodes, outcome \in {"ok", "notfound", "error", "exception"},
        runs \in UpdaterRuns : lookupResponse(code, outcome, runs)
  \/ \E code \in Codes : handleRemoveItem(code)
  \/ \E code \in Codes, r \in PromptResults :
        handleChangeQuantity(code, r.cancelled, r.text)

SpecCart == Init /\ [][NextCart]_vars

\* Checkout: the transaction, lookups of registered codes, quantity changes
\* and purchases, one at a time, with every outcome of their requests. The
\* DTL_IDs are not followed in these runs: Math.random() yields 0 each time.
NextPurchase ==
  \/ \E outcome \in HttpOutcomes : createTransactionResponse(outcome)
  \/ \E code \in Codes : typeProductCode(code)
  \/ nLookups < MaxCheckoutLookups /\ handleManualRead
  \/ \E code \in Codes, runs \in UpdaterRuns : lookupResponse(code, "ok", runs)
  \/ \E code \in Codes : handleChangeQuantity(code, FALSE, <<"2">>)
  \/ (\A k \in DOMAIN pur : ~Running(pur[k])) /\ handlePurchase(0)
  \/ \E k \in DOMAIN pur, outcome \in HttpOutcomes : detailResponse(k, outcome, 0)
  \/ \E k \in DOMAIN pur, outcome \in HttpOutcomes :
        refreshResponse(k, outcome, getTransaction(pur[k].tid))

SpecPurchase == Init /\ [][NextPurchase]_vars

\* Scanning: the scan button, the decoders, and the lookups they start.
NextScan ==
  \/ handleToggleScan
  \/ \E d \in DOMAIN dec, first \in Codes \cup {""} :
        (first # "" => nLookups < MaxLookups) /\ streamAcquired(d, first)
  \/ \E d \in DOMAIN dec, code \in Codes : nLookups < MaxLookups /\ decoded(d, code)
  \/ \E d \in DOMAIN dec : acquireFailed(d)
  \/ \E code \in Codes, outcome \in {"ok", "error"}, runs \in UpdaterRuns :
        lookupResponse(code, outcome, runs)

SpecScan == Init /\ [][NextScan]_vars

\* The cart during checkouts: lookups, removals, quantity changes and
\* purchases, one purchase at a time, in any interleaving; every request
\* succeeds and Math.random() yields 0 each time.
NextCheckout ==
  \/ createTransactionResponse("ok")
  \/ \E code \in Codes : typeProductCode(code)
  \/ nLookups < MaxCheckoutLookups /\ handleManualRead
  \/ \E code \in Codes, runs \in UpdaterRuns : lookupResponse(code, "ok", runs)
  \/ \E code \in Codes : handleRemoveItem(code)
  \/ \E code \in Codes : handleChangeQuantity(code, FALSE, <<"2">>)
  \/ (\A k \in DOMAIN pur : ~Running(pur[k])) /\ handlePurchase(0)
  \/ \E k \in DOMAIN pur : detailResponse(k, "ok", 0)
  \/ \E k \in DOMAIN pur : refreshResponse(k, "ok", getTransaction(pur[k].tid))

SpecCheckout == Init /\ [][NextCheckout]_vars

\* Purchases that overlap: the purchase button is clicked whenever it is there
\* (a purchase may be running), with any DTL_IDs; every request succeeds.
NextOverlap ==
  \/ createTransactionResponse("ok")
  \/ \E code \in Codes : typeProductCode(code)
  \/ nLookups < MaxCheckoutLookups /\ handleManualRead
  \/ \E code \in Codes, runs \in UpdaterRuns : lookupResponse(code, "ok", runs)
  \/ \E id \in DetailIds : handlePurchase(id)
  \/ \E k \in DOMAIN pur, id \in DetailIds : detailResponse(k, "ok", id)
  \/ \E k \in DOMAIN pur : refreshResponse(k, "ok", getTransaction(pur[k].tid))

SpecOverlap == Init /\ [][NextOverlap]_vars

\* The completion alert: purchases of an empty cart whose transaction fetch
\* is answered with any TOTAL_AMT of TotalAmts.
TotalAmts == (0 .. LowTotalAmt) \cup (HighTotalAmt .. MaxTotalAmt)

NextTax ==
  \/ createTransactionResponse("ok")
  \/ handlePurchase(0)
  \/ \E k \in DOMAIN pur, total \in TotalAmts : refreshResponse(k, "ok", total)

SpecTax == Init /\ [][NextTax]_vars

\* Lookups only: codes typed in and read, and the responses in any order.
NextLookup ==
  \/ \E code \in AllCodes : typeProductCode(code)
  \/ nLookups < MaxLookups /\ handleManualRead
  \/ \E code \in AllCodes, outcome \in {"ok", "notfound", "error", "exception"},
        runs \in UpdaterRuns : lookupResponse(code, outcome, runs)

SpecLookup == Init /\ [][NextLookup]_vars

Next ==
  NextCart \/ NextPurchase \/ NextScan \/ NextCheckout \/ NextOverlap \/ NextTax
    \/ NextLookup

Spec == Init /\ [][Next]_vars

\* ============================================================ the properties
IsPrefix(a, b) == Len(a) <= Len(b) /\ \A n \in 1 .. Len(a) : a[n] = b[n]

\* A purchase ends in this step: handlePurchase returns or throws.
Ends(k) == Running(pur[k]) /\ Finished(pur'[k])

\* C1: a purchase invoked with a resolved transaction id issues, for the cart
\* it was invoked with, one detail call per unit, line by line in cart order:
\* what it has issued is at every moment a prefix of that sequence, the
\* transaction is fetched only when the whole sequence has been issued, and
\* the purchase does not end before it has (calls are issued one at a time
\* by construction: the function is suspended at one await).
C1_DetailCallsPerUnitInOrder ==
  /\ [](\A k \in DOMAIN pur :
          Running(pur[k]) =>
            /\ IsPrefix(pur[k].calls, pur[k].expected)
            /\ (pur[k].pc = "refresh" => pur[k].calls = pur[k].expected))
  /\ [][\A k \in DOMAIN pur : Ends(k) => pur[k].calls = pur[k].expected]_vars

\* C2: every purchase that passes the transaction-id check ends with the cart
\* empty and productCode, foundProduct and productError cleared.
C2_PurchaseEndsCleared ==
  [][\A k \in DOMAIN pur :
       Ends(k) => /\ cart' = <<>>
                  /\ productCode' = ""
                  /\ foundProduct' = NoProduct
                  /\ productError' = ""]_vars

\* C3: a detail call that fails, by a non-success response or by a network
\* exception, is reported and the loop goes on: the purchase is still running
\* afterwards, and has issued the next call if a unit is left.
C3_FailedDetailCallDoesNotAbort ==
  [][\A k \in DOMAIN pur, outcome \in {"error", "exception"}, id \in DetailIds :
       detailResponse(k, outcome, id) =>
         /\ alertMsg' = AlertDetailFailed
         /\ Running(pur'[k])
         /\ (Len(pur[k].calls) < Len(pur[k].expected) =>
               /\ pur'[k].pc = "detail"
               /\ Len(pur'[k].calls) = Len(pur[k].calls) + 1)]_vars

\* C4: while the transaction id is unset no purchase is running or has run,
\* and a click on the purchase button then only raises the alert: no request
\* is issued and the cart and the display state stay as they are.
C4_NoPurchaseWithoutTransaction ==
  /\ [](transactionId = NoTransaction =>
          /\ \A k \in DOMAIN pur : pur[k] = IdlePurchase
          /\ \A t \in DOMAIN serverTotal : serverTotal[t] = 0)
  /\ [][(transactionId = NoTransaction /\ \E id \in DetailIds : handlePurchase(id)) =>
          /\ alertMsg' = AlertNoTransaction
          /\ UNCHANGED <<cartVars, displayVars, purVars, lookupVars, txnVars,
                         scanVars, strictDev>>]_vars

\* C4's case: the creation request has failed, the cart holds a line, and the
\* purchase button has been clicked.
C4_Witness ==
  /\ transactionId = NoTransaction
  /\ txnPending = 0
  /\ cart # <<>>
  /\ alertMsg = AlertNoTransaction

\* C5: when a purchase has fetched the transaction, the unit prices posted
\* successfully to its transaction add up to no more than the pre-tax total
\* of the cart checked out (the cart it was invoked with, or the cart as it
\* is now if that is more), and to exactly that of the cart it was invoked
\* with when none of its calls failed and the cart has not changed since.
C5_PostedSumIsCartTotal ==
  [][\A k \in DOMAIN pur :
       (pur[k].pc = "refresh" /\ Finished(pur'[k])) =>
         LET posted == serverTotal[pur[k].tid]
             now    == totalWithoutTax
             then   == pur[k].total0
         IN  /\ posted <= (IF now > then THEN now ELSE then)
             /\ (~pur[k].failed /\ now = then => posted = then)]_vars

C7_StopCancelsScan ==
  \A d \in DOMAIN dec :
    dec[d].stopAsked => /\ dec[d].st # "running"
                        /\ dec[d].lookups = 0

\* What addOrIncrement is to do to the lines of a cart.
AddedOnce(lines, product) ==
  IF \E n \in DOMAIN lines : lines[n].CODE = product.CODE
    THEN [n \in DOMAIN lines |->
            IF lines[n].CODE = product.CODE
              THEN [lines[n] EXCEPT !.quantity = @ + 1]
              ELSE lines[n]]
    ELSE Append(lines, [CODE |-> product.CODE, PRICE |-> product.PRICE,
                        quantity |-> 1])

\* C8: a successful lookup of a code raises the quantity of the cart's line
\* with that code by exactly 1 and leaves the other lines and the order as
\* they are, or appends a line of quantity 1 when there is no such line.
C8_AddOrIncrement ==
  [][\A code \in Codes, runs \in UpdaterRuns :
       lookupResponse(code, "ok", runs) =>
         CartLines' = AddedOnce(CartLines, Product(code))]_vars

\* C9: every cart line has a quantity between 1 and 99.
C9_QuantityInRange ==
  \A n \in 1 .. Len(cart) : CartLines[n].quantity \in MinQty .. MaxQty

\* The number each text of PromptResults stands for (JavaScript's
\* parseInt(text, 10)); NaN is given as a value outside every range.
NaN == -1000
Typed(text) ==
  CASE text = <<"0">> -> 0
    [] text = <<"2">> -> 2
    [] text = <<"9", "9">> -> 99
    [] text = <<"1", "0", "0">> -> 100
    [] text = <<" ", "2", "a">> -> 2
    [] text = <<"-", "1">> -> -1
    [] OTHER -> NaN

QuantitySet(lines, code, n) ==
  [k \in DOMAIN lines |->
     IF lines[k].CODE = code THEN [lines[k] EXCEPT !.quantity = n] ELSE lines[k]]

\* C10: setQuantity(code, n) with n outside 1..99 raises the validation alert
\* and leaves the cart as it is; with n in 1..99 the lines with that code get
\* quantity n and every other line, the order and the number of lines stay
\* (so nothing changes when no line has the code). Stated of the steps that
\* change the cart or the alert and nothing a quantity change leaves alone.
C10_SetQuantity ==
  [][(UNCHANGED <<displayVars, lookupVars>> /\ <<cartVars, alertMsg>>' # <<cartVars, alertMsg>>) =>
       \A code \in Codes, r \in PromptResults :
         (~r.cancelled /\ r.text # <<>> /\ handleChangeQuantity(code, FALSE, r.text)) =>
           LET n == Typed(r.text) IN
           IF n \in MinQty .. MaxQty
             THEN CartLines' = QuantitySet(CartLines, code, n)
             ELSE alertMsg' = AlertQuantityRange /\ UNCHANGED cartVars]_vars

\* C10's case: one line has been set to 99, the other line still has its
\* quantity of 1, and an out-of-range quantity has been rejected.
C10_Witness ==
  /\ Len(cart) = 2
  /\ CartLines[1].quantity = MaxQty
  /\ CartLines[2].quantity = 1
  /\ alertMsg = AlertQuantityRange

\* C11: the cart never holds two lines with the same product code.
C11_OneLinePerCode ==
  \A i, j \in 1 .. Len(cart) :
    CartLines[i].CODE = CartLines[j].CODE => i = j

\* C11's case: a code was added, checked out, and added again: the cart
\* holds one line, of that code.
C11_Witness ==
  /\ \E k \in DOMAIN pur : pur[k].pc = "done"
  /\ okLookups["A"] = 2
  /\ Len(cart) = 1
  /\ CartLines[1].CODE = "A"

\* C12: a lookup answered with 404 leaves the cart as it is, clears the found
\* product and sets the not-registered message; a lookup that ends with
\* another non-success answer or with a network exception leaves the cart as
\* it is.
C12_FailedLookupKeepsCart ==
  [][\A code \in AllCodes, runs \in UpdaterRuns :
       /\ lookupResponse(code, "notfound", runs) =>
            /\ UNCHANGED cartVars
            /\ foundProduct' = NoProduct
            /\ productError' = "not registered"
       /\ \A outcome \in {"error", "exception"} :
            lookupResponse(code, outcome, runs) => UNCHANGED cartVars]_vars

\* C12's case: with a line in the cart, a lookup has been answered with 404
\* and another has failed in transport.
C12_Witness ==
  /\ cart # <<>>
  /\ foundProduct = NoProduct
  /\ productError = "not registered"
  /\ alertMsg \in {AlertLookupFailed, AlertLookupException}
  /\ \A code \in AllCodes : lookups[code] = 0

\* C13: the page issues at most one transaction-creation request, and
\* transactionId changes at most once: from null to the id of the created
\* transaction; it is null as long as no request has succeeded.
C13_TransactionCreatedOnce ==
  /\ [](txnIssued <= 1)
  /\ [](txnCreated = 0 => transactionId = NoTransaction)
  /\ [][transactionId' # transactionId => transactionId = NoTransaction]_vars

\* C14: every detail call carries a DTL_ID that no earlier detail call of the
\* same transaction carried, within one purchase and across purchases.
C14_DetailIdsDistinct ==
  [][\A id \in DetailIds :
       /\ (handlePurchase(id)
             /\ \E k \in DOMAIN pur : pur[k].pc = "idle" /\ pur'[k].pc = "detail")
            => id \notin detailIds[transactionId]
       /\ \A k \in DOMAIN pur :
            (detailResponse(k, "ok", id) /\ pur'[k].pc = "detail")
              => id \notin detailIds[pur[k].tid]]_vars

\* Rounding of total * 1.1 to the nearest integer, a half going up, in exact
\* integer arithmetic.
TaxIncludedExact(total) == (11 * total + 5) \div 10

\* C15: the total in the completion alert is the TOTAL_AMT of the transaction
\* fetch times 1.1, rounded to the nearest integer with halves up:
\* (11 * TOTAL_AMT + 5) div 10, whatever the cart's own total is.
C15_TaxIncludedTotal ==
  [][\A k \in DOMAIN pur, total \in TotalAmts :
       refreshResponse(k, "ok", total) =>
         alertMsg' = AlertPurchaseDone(TaxIncludedExact(total))]_vars

\* C15's case: every purchase has completed, the cart being empty, and the
\* last alert shows 501, the total for a TOTAL_AMT of 455.
C15_Witness ==
  /\ alertMsg = AlertPurchaseDone(501)
  /\ 455 \in TotalAmts
  /\ \A k \in DOMAIN pur : pur[k].pc = "done"

\* What the display (foundProduct, productError) shows for a lookup of `code`
\* that ended with `outcome`, as after a lookup made on its own.
Shown(code, outcome) ==
  CASE outcome = "ok" -> <<Product(code).CODE, "">>
    [] outcome = "notfound" -> <<NoProduct, "not registered">>
    [] OTHER -> <<NoProduct, "">>

\* C16: once the responses of all lookups in flight have been handled, the
\* display shows what the response handled last gives, whatever the outcomes
\* and the order of arrival (lookups that do not overlap included).
C16_LastResponseWins ==
  [][\A code \in AllCodes, outcome \in {"ok", "notfound", "error", "exception"},
        runs \in UpdaterRuns :
       (lookupResponse(code, outcome, runs) /\ \A c \in AllCodes : lookups'[c] = 0)
         => <<foundProduct', productError'>> = Shown(code, outcome)]_vars

\* The units of a code in the cart.
RECURSIVE QuantityOf(_, _)
QuantityOf(lines, code) ==
  IF lines = <<>> THEN 0
  ELSE (IF Head(lines).CODE = code THEN Head(lines).quantity ELSE 0)
         + QuantityOf(Tail(lines), code)

\* C17: with lookups only (no checkout, removal or quantity change), the
\* units of each code in the cart are as many as the successful lookup
\* responses handled for that code, however the lookups overlap and in
\* whatever order their responses arrive.
C17_OneUnitPerSuccessfulLookup ==
  \A code \in Codes : QuantityOf(CartLines, code) = okLookups[code]

\* How often x occurs in a sequence.
Count(seq, x) == Cardinality({n \in DOMAIN seq : seq[n] = x})

\* C18: when a purchase clears the cart, it has issued a detail call for
\* every unit the cart then holds: per code, at least as many calls as the
\* cart has units of it, whatever was added, removed or changed meanwhile.
C18_NoUnitLostAtClear ==
  [][\A k \in DOMAIN pur :
       (pur[k].pc = "refresh" /\ pur'[k].pc = "done") =>
         \A code \in Codes :
           QuantityOf(CartLines, code) <= Count(pur[k].calls, code)]_vars

\* C19: purchases that are in flight together do not post a unit twice: per
\* code, the detail calls they have issued together are no more than the
\* units of that code in the larger of the carts they were invoked with.
C19_NoDoublePostingByOverlap ==
  \A k1, k2 \in DOMAIN pur :
    (k1 < k2 /\ Running(pur[k1]) /\ Running(pur[k2])) =>
      \A code \in Codes :
        LET q1 == Count(pur[k1].expected, code)
            q2 == Count(pur[k2].expected, code)
        IN  Count(pur[k1].calls, code) + Count(pur[k2].calls, code)
              <= (IF q1 > q2 THEN q1 ELSE q2)

\* C20: the updater of autoAddToCart is a pure function of the previous cart:
\* applied to the cart for any product, it leaves the lines of the previous
\* cart as they are and returns the cart with one unit of the product added;
\* applied a second time to the same previous cart, it returns the same.
C20_UpdaterIsPure ==
  \A code \in Codes :
    LET first  == cartUpdater(heap, cart, Product(code))
        second == cartUpdater(first.heap, cart, Product(code))
    IN  /\ Lines(first.heap, cart) = CartLines
        /\ Lines(first.heap, first.cart) = AddedOnce(CartLines, Product(code))
        /\ Lines(second.heap, second.cart) = AddedOnce(CartLines, Product(code))

====
